---- MODULE Spec2Model ----
(***************************************************************************)
(* Model of the 2-D k-d tree of src/tree.py (classes KDNode and KDTree):   *)
(* insert, delete, range_search and nearest_neighbor over a tree of nodes  *)
(* holding a point, a payload and two optional children.                   *)
(*                                                                         *)
(* A tree is a value: either None or a record with the fields of KDNode.   *)
(* Python's 0-based axis a of a point is component a + 1 of a TLA+ tuple.  *)
(* Euclidean distances are carried as their squares: math.sqrt is strictly *)
(* increasing and exact on the squares of the integers of the model, so    *)
(* every comparison of distances in the code is the same comparison of     *)
(* squared distances.                                                      *)
(***************************************************************************)
EXTENDS Integers, Sequences, FiniteSets

\* root: KDTree.root. op, arg, ret: the last call made on the tree, its
\* argument(s) and the value it returned.
VARIABLES root, op, arg, ret

vars == <<root, op, arg, ret>>

\* The largest tree the model builds: insert is not called on a tree that
\* already has MaxNodes nodes.
MaxNodes == 4

\* The inputs of the model: coordinates, points (x, y) and opaque payloads.
Coords == 0..1
Points == Coords \X Coords
Payloads == {"a", "b"}

\* A grid with a third coordinate value, for the trees and rectangles of
\* range_search pruning: a node with coordinate 1 can then have smaller points
\* on its left, larger points on its right and a rectangle that starts beyond it.
WideCoords == 0..2
WidePoints == WideCoords \X WideCoords

\* Python's None: an absent child, an absent root, "no result".
None == [none |-> TRUE]

\* KDNode.__init__
KDNode(point, data) ==
    [point |-> point, data |-> data, left |-> None, right |-> None]

\* float('inf'): a number above every squared distance between two points.
Inf == 1 + 2 * Cardinality(Coords) * Cardinality(Coords)

Abs(x) == IF x < 0 THEN -x ELSE x

\* The square of math.sqrt((p[0]-t[0])**2 + (p[1]-t[1])**2).
Dist2(p, t) == (p[1] - t[1]) * (p[1] - t[1]) + (p[2] - t[2]) * (p[2] - t[2])

\* _insert_recursive that puts the new node on top: the node it meets becomes
\* the left or right child of the new node, one level further down.
InsertRecursiveOnTop(node, point, data, depth) ==
    IF node = None THEN KDNode(point, data)
    ELSE LET axis == depth % 2 IN
         IF point[axis + 1] < node.point[axis + 1]
         THEN [KDNode(point, data) EXCEPT !.right = node]
         ELSE [KDNode(point, data) EXCEPT !.left = node]

\* _insert_recursive with the comparison of line 62 written <= : a point equal
\* to the node's on the split axis goes left.
RECURSIVE InsertRecursiveLeq(_, _, _, _)
InsertRecursiveLeq(node, point, data, depth) ==
    IF node = None THEN KDNode(point, data)
    ELSE LET axis == depth % 2 IN
         IF point[axis + 1] <= node.point[axis + 1]
         THEN [node EXCEPT !.left = InsertRecursiveLeq(node.left, point, data, depth + 1)]
         ELSE [node EXCEPT !.right = InsertRecursiveLeq(node.right, point, data, depth + 1)]

\* _insert_recursive that merges duplicates: a node already holding the point
\* takes the new payload and no node is created.
RECURSIVE InsertRecursiveMerge(_, _, _, _)
InsertRecursiveMerge(node, point, data, depth) ==
    IF node = None THEN KDNode(point, data)
    ELSE IF node.point = point THEN [node EXCEPT !.data = data]
    ELSE LET axis == depth % 2 IN
         IF point[axis + 1] < node.point[axis + 1]
         THEN [node EXCEPT !.left = InsertRecursiveMerge(node.left, point, data, depth + 1)]
         ELSE [node EXCEPT !.right = InsertRecursiveMerge(node.right, point, data, depth + 1)]

\* KDTree._insert_recursive
RECURSIVE InsertRecursive(_, _, _, _)
InsertRecursive(node, point, data, depth) ==
    IF node = None THEN KDNode(point, data)
    ELSE LET axis == depth % 2 IN
         IF point[axis + 1] < node.point[axis + 1]
         THEN [node EXCEPT !.left = InsertRecursive(node.left, point, data, depth + 1)]
         ELSE [node EXCEPT !.right = InsertRecursive(node.right, point, data, depth + 1)]

\* raise ValueError("Node cannot be None")
ValueError == [error |-> "Node cannot be None"]

\* KDTree._find_min
RECURSIVE FindMin(_, _)
FindMin(node, axis) ==
    IF node = None THEN ValueError
    ELSE IF axis = 0 /\ node.left = None THEN node
    ELSE IF axis = 1 /\ node.left = None /\ node.right = None THEN node
    ELSE IF axis = 0
         THEN IF node.left = None THEN node ELSE FindMin(node.left, axis)
         ELSE LET left_min == IF node.left # None THEN FindMin(node.left, axis) ELSE None
                  right_min == IF node.right # None THEN FindMin(node.right, axis) ELSE None
                  m1 == IF left_min # None /\ left_min.point[axis + 1] < node.point[axis + 1]
                        THEN left_min ELSE node
                  m2 == IF right_min # None /\ right_min.point[axis + 1] < m1.point[axis + 1]
                        THEN right_min ELSE m1
              IN m2

\* The calls of _find_min made by one call _find_min(node, axis), itself
\* included, each as [node, axis], with the guards of lines 158-159 dropped:
\* the search along y calls itself on both children, present or not.
RECURSIVE FindMinCallsUnguarded(_, _)
FindMinCallsUnguarded(node, axis) ==
    {[node |-> node, axis |-> axis]} \cup
    (IF node = None THEN {}
     ELSE IF axis = 0 /\ node.left = None THEN {}
     ELSE IF axis = 1 /\ node.left = None /\ node.right = None THEN {}
     ELSE IF axis = 0
          THEN IF node.left = None THEN {} ELSE FindMinCallsUnguarded(node.left, axis)
          ELSE FindMinCallsUnguarded(node.left, axis)
                   \cup FindMinCallsUnguarded(node.right, axis))

\* The calls of _find_min made by one call _find_min(node, axis), itself
\* included, each as [node, axis]: the call tree of KDTree._find_min.
RECURSIVE FindMinCalls(_, _)
FindMinCalls(node, axis) ==
    {[node |-> node, axis |-> axis]} \cup
    (IF node = None THEN {}
     ELSE IF axis = 0 /\ node.left = None THEN {}
     ELSE IF axis = 1 /\ node.left = None /\ node.right = None THEN {}
     ELSE IF axis = 0
          THEN IF node.left = None THEN {} ELSE FindMinCalls(node.left, axis)
          ELSE (IF node.left # None THEN FindMinCalls(node.left, axis) ELSE {})
                   \cup (IF node.right # None THEN FindMinCalls(node.right, axis) ELSE {}))

\* The calls of _find_min made during _delete_recursive(node, point, depth):
\* those of lines 109 and 115 with their own recursive calls, at the matched
\* node and in the inner deletes of the copied minimum.  A ValueError ends the
\* delete, so no call follows it.
RECURSIVE DeleteFindMinCalls(_, _, _)
DeleteFindMinCalls(node, point, depth) ==
    IF node = None THEN {}
    ELSE LET axis == depth % 2 IN
         IF node.point = point
         THEN IF node.left = None /\ node.right = None THEN {}
              ELSE LET child == IF node.right # None THEN node.right ELSE node.left
                       min_node == FindMin(child, axis)
                   IN FindMinCalls(child, axis) \cup
                      (IF min_node = ValueError THEN {}
                       ELSE DeleteFindMinCalls(child, min_node.point, depth + 1))
         ELSE IF point[axis + 1] < node.point[axis + 1]
              THEN DeleteFindMinCalls(node.left, point, depth + 1)
              ELSE DeleteFindMinCalls(node.right, point, depth + 1)

\* _delete_recursive whose descent (line 123) takes point[axis] <= node.point[axis]:
\* a point equal to the node on the split axis is looked for on the left.
RECURSIVE DeleteRecursiveLeq(_, _, _)
DeleteRecursiveLeq(node, point, depth) ==
    IF node = None THEN <<None, FALSE>>
    ELSE LET axis == depth % 2 IN
         IF node.point = point
         THEN IF node.left = None /\ node.right = None THEN <<None, TRUE>>
              ELSE IF node.right # None
              THEN LET min_node == FindMin(node.right, axis)
                       sub == DeleteRecursiveLeq(node.right, min_node.point, depth + 1)
                   IN <<[node EXCEPT !.point = min_node.point,
                                     !.data = min_node.data,
                                     !.right = sub[1]], TRUE>>
              ELSE LET min_node == FindMin(node.left, axis)
                       sub == DeleteRecursiveLeq(node.left, min_node.point, depth + 1)
                   IN <<[node EXCEPT !.point = min_node.point,
                                     !.data = min_node.data,
                                     !.left = sub[1]], TRUE>>
         ELSE IF point[axis + 1] <= node.point[axis + 1]
              THEN LET sub == DeleteRecursiveLeq(node.left, point, depth + 1)
                   IN <<[node EXCEPT !.left = sub[1]], sub[2]>>
              ELSE LET sub == DeleteRecursiveLeq(node.right, point, depth + 1)
                   IN <<[node EXCEPT !.right = sub[1]], sub[2]>>

\* _delete_recursive whose leaf case (lines 103-104) returns the node itself:
\* a matched leaf is reported deleted and stays in the tree.
RECURSIVE DeleteRecursiveKeepLeaf(_, _, _)
DeleteRecursiveKeepLeaf(node, point, depth) ==
    IF node = None THEN <<None, FALSE>>
    ELSE LET axis == depth % 2 IN
         IF node.point = point
         THEN IF node.left = None /\ node.right = None THEN <<node, TRUE>>
              ELSE IF node.right # None
              THEN LET min_node == FindMin(node.right, axis)
                       sub == DeleteRecursiveKeepLeaf(node.right, min_node.point, depth + 1)
                   IN <<[node EXCEPT !.point = min_node.point,
                                     !.data = min_node.data,
                                     !.right = sub[1]], TRUE>>
              ELSE LET min_node == FindMin(node.left, axis)
                       sub == DeleteRecursiveKeepLeaf(node.left, min_node.point, depth + 1)
                   IN <<[node EXCEPT !.point = min_node.point,
                                     !.data = min_node.data,
                                     !.left = sub[1]], TRUE>>
         ELSE IF point[axis + 1] < node.point[axis + 1]
              THEN LET sub == DeleteRecursiveKeepLeaf(node.left, point, depth + 1)
                   IN <<[node EXCEPT !.left = sub[1]], sub[2]>>
              ELSE LET sub == DeleteRecursiveKeepLeaf(node.right, point, depth + 1)
                   IN <<[node EXCEPT !.right = sub[1]], sub[2]>>

\* _delete_recursive with the match of line 101 taken on the split axis alone
\* (node.point[axis] == point[axis]).
RECURSIVE DeleteRecursiveAxisMatch(_, _, _)
DeleteRecursiveAxisMatch(node, point, depth) ==
    IF node = None THEN <<None, FALSE>>
    ELSE LET axis == depth % 2 IN
         IF node.point[axis + 1] = point[axis + 1]
         THEN IF node.left = None /\ node.right = None THEN <<None, TRUE>>
              ELSE IF node.right # None
              THEN LET min_node == FindMin(node.right, axis)
                       sub == DeleteRecursiveAxisMatch(node.right, min_node.point, depth + 1)
                   IN <<[node EXCEPT !.point = min_node.point,
                                     !.data = min_node.data,
                                     !.right = sub[1]], TRUE>>
              ELSE LET min_node == FindMin(node.left, axis)
                       sub == DeleteRecursiveAxisMatch(node.left, min_node.point, depth + 1)
                   IN <<[node EXCEPT !.point = min_node.point,
                                     !.data = min_node.data,
                                     !.left = sub[1]], TRUE>>
         ELSE IF point[axis + 1] < node.point[axis + 1]
              THEN LET sub == DeleteRecursiveAxisMatch(node.left, point, depth + 1)
                   IN <<[node EXCEPT !.left = sub[1]], sub[2]>>
              ELSE LET sub == DeleteRecursiveAxisMatch(node.right, point, depth + 1)
                   IN <<[node EXCEPT !.right = sub[1]], sub[2]>>

\* _delete_recursive without the assignment node.point = min_node.point of
\* lines 110 and 116: the node keeps its point and takes only the payload.
RECURSIVE DeleteRecursiveNoCopy(_, _, _)
DeleteRecursiveNoCopy(node, point, depth) ==
    IF node = None THEN <<None, FALSE>>
    ELSE LET axis == depth % 2 IN
         IF node.point = point
         THEN IF node.left = None /\ node.right = None THEN <<None, TRUE>>
              ELSE IF node.right # None
              THEN LET min_node == FindMin(node.right, axis)
                       sub == DeleteRecursiveNoCopy(node.right, min_node.point, depth + 1)
                   IN <<[node EXCEPT !.data = min_node.data,
                                     !.right = sub[1]], TRUE>>
              ELSE LET min_node == FindMin(node.left, axis)
                       sub == DeleteRecursiveNoCopy(node.left, min_node.point, depth + 1)
                   IN <<[node EXCEPT !.data = min_node.data,
                                     !.left = sub[1]], TRUE>>
         ELSE IF point[axis + 1] < node.point[axis + 1]
              THEN LET sub == DeleteRecursiveNoCopy(node.left, point, depth + 1)
                   IN <<[node EXCEPT !.left = sub[1]], sub[2]>>
              ELSE LET sub == DeleteRecursiveNoCopy(node.right, point, depth + 1)
                   IN <<[node EXCEPT !.right = sub[1]], sub[2]>>

\* KDTree._delete_recursive: <<updated node, deleted flag>>
RECURSIVE DeleteRecursive(_, _, _)
DeleteRecursive(node, point, depth) ==
    IF node = None THEN <<None, FALSE>>
    ELSE LET axis == depth % 2 IN
         IF node.point = point
         THEN IF node.left = None /\ node.right = None THEN <<None, TRUE>>
              ELSE IF node.right # None
              THEN LET min_node == FindMin(node.right, axis)
                       sub == DeleteRecursive(node.right, min_node.point, depth + 1)
                   IN <<[node EXCEPT !.point = min_node.point,
                                     !.data = min_node.data,
                                     !.right = sub[1]], TRUE>>
              ELSE LET min_node == FindMin(node.left, axis)
                       sub == DeleteRecursive(node.left, min_node.point, depth + 1)
                   IN <<[node EXCEPT !.point = min_node.point,
                                     !.data = min_node.data,
                                     !.left = sub[1]], TRUE>>
         ELSE IF point[axis + 1] < node.point[axis + 1]
              THEN LET sub == DeleteRecursive(node.left, point, depth + 1)
                   IN <<[node EXCEPT !.left = sub[1]], sub[2]>>
              ELSE LET sub == DeleteRecursive(node.right, point, depth + 1)
                   IN <<[node EXCEPT !.right = sub[1]], sub[2]>>

\* _range_search_recursive with the containment test of lines 202-203 taken
\* on x alone (the test on y forgotten).
RECURSIVE RangeSearchRecursiveXOnly(_, _, _, _, _)
RangeSearchRecursiveXOnly(node, min_point, max_point, depth, result) ==
    IF node = None THEN result
    ELSE LET axis == depth % 2
             r0 == IF min_point[1] <= node.point[1] /\ node.point[1] <= max_point[1]
                   THEN Append(result, <<node.point, node.data>>)
                   ELSE result
             r1 == IF min_point[axis + 1] <= node.point[axis + 1]
                   THEN RangeSearchRecursiveXOnly(node.left, min_point, max_point, depth + 1, r0)
                   ELSE r0
             r2 == IF node.point[axis + 1] <= max_point[axis + 1]
                   THEN RangeSearchRecursiveXOnly(node.right, min_point, max_point, depth + 1, r1)
                   ELSE r1
         IN r2

\* _range_search_recursive whose right descent (line 214) takes a strict
\* comparison: a right subtree is skipped when the node lies on the upper edge.
RECURSIVE RangeSearchRecursiveStrict(_, _, _, _, _)
RangeSearchRecursiveStrict(node, min_point, max_point, depth, result) ==
    IF node = None THEN result
    ELSE LET axis == depth % 2
             r0 == IF /\ min_point[1] <= node.point[1] /\ node.point[1] <= max_point[1]
                      /\ min_point[2] <= node.point[2] /\ node.point[2] <= max_point[2]
                   THEN Append(result, <<node.point, node.data>>)
                   ELSE result
             r1 == IF min_point[axis + 1] <= node.point[axis + 1]
                   THEN RangeSearchRecursiveStrict(node.left, min_point, max_point, depth + 1, r0)
                   ELSE r0
             r2 == IF node.point[axis + 1] < max_point[axis + 1]
                   THEN RangeSearchRecursiveStrict(node.right, min_point, max_point, depth + 1, r1)
                   ELSE r1
         IN r2

\* KDTree._range_search_recursive: the result list after the call
RECURSIVE RangeSearchRecursive(_, _, _, _, _)
RangeSearchRecursive(node, min_point, max_point, depth, result) ==
    IF node = None THEN result
    ELSE LET axis == depth % 2
             r0 == IF /\ min_point[1] <= node.point[1] /\ node.point[1] <= max_point[1]
                      /\ min_point[2] <= node.point[2] /\ node.point[2] <= max_point[2]
                   THEN Append(result, <<node.point, node.data>>)
                   ELSE result
             r1 == IF min_point[axis + 1] <= node.point[axis + 1]
                   THEN RangeSearchRecursive(node.left, min_point, max_point, depth + 1, r0)
                   ELSE r0
             r2 == IF node.point[axis + 1] <= max_point[axis + 1]
                   THEN RangeSearchRecursive(node.right, min_point, max_point, depth + 1, r1)
                   ELSE r1
         IN r2

\* _nearest_neighbor_recursive whose update (line 252) also takes an equal
\* distance: a later node at the same distance displaces the earlier one.
RECURSIVE NearestNeighborRecursiveLeq(_, _, _, _)
NearestNeighborRecursiveLeq(node, target, depth, best) ==
    IF node = None THEN best
    ELSE LET distance == Dist2(node.point, target)
             b0 == IF distance <= best[3]
                   THEN <<node.point, node.data, distance>>
                   ELSE best
             axis == depth % 2
             gap == Abs(target[axis + 1] - node.point[axis + 1])
         IN IF target[axis + 1] < node.point[axis + 1]
            THEN LET b1 == NearestNeighborRecursiveLeq(node.left, target, depth + 1, b0)
                 IN IF gap * gap < b1[3]
                    THEN NearestNeighborRecursiveLeq(node.right, target, depth + 1, b1)
                    ELSE b1
            ELSE LET b1 == NearestNeighborRecursiveLeq(node.right, target, depth + 1, b0)
                 IN IF gap * gap < b1[3]
                    THEN NearestNeighborRecursiveLeq(node.left, target, depth + 1, b1)
                    ELSE b1

\* _nearest_neighbor_recursive that searches the near child only: the far
\* child is never visited (lines 264-265 and 269-270 dropped).
RECURSIVE NearestNeighborRecursiveNearOnly(_, _, _, _)
NearestNeighborRecursiveNearOnly(node, target, depth, best) ==
    IF node = None THEN best
    ELSE LET distance == Dist2(node.point, target)
             b0 == IF distance < best[3]
                   THEN <<node.point, node.data, distance>>
                   ELSE best
             axis == depth % 2
         IN IF target[axis + 1] < node.point[axis + 1]
            THEN NearestNeighborRecursiveNearOnly(node.left, target, depth + 1, b0)
            ELSE NearestNeighborRecursiveNearOnly(node.right, target, depth + 1, b0)

\* KDTree._nearest_neighbor_recursive: the list best after the call,
\* <<point, data, squared distance>>
RECURSIVE NearestNeighborRecursive(_, _, _, _)
NearestNeighborRecursive(node, target, depth, best) ==
    IF node = None THEN best
    ELSE LET distance == Dist2(node.point, target)
             b0 == IF distance < best[3]
                   THEN <<node.point, node.data, distance>>
                   ELSE best
             axis == depth % 2
             gap == Abs(target[axis + 1] - node.point[axis + 1])
         IN IF target[axis + 1] < node.point[axis + 1]
            THEN LET b1 == NearestNeighborRecursive(node.left, target, depth + 1, b0)
                 IN IF gap * gap < b1[3]
                    THEN NearestNeighborRecursive(node.right, target, depth + 1, b1)
                    ELSE b1
            ELSE LET b1 == NearestNeighborRecursive(node.right, target, depth + 1, b0)
                 IN IF gap * gap < b1[3]
                    THEN NearestNeighborRecursive(node.left, target, depth + 1, b1)
                    ELSE b1

\* _nearest_neighbor_recursive, visits recorded, with the two recursive calls
\* of each branch exchanged: the far child is searched first, under the test
\* of lines 264/269, and the near child after it.
RECURSIVE NearestNeighborTraceFarFirst(_, _, _, _, _)
NearestNeighborTraceFarFirst(node, target, depth, st, path) ==
    IF node = None THEN st
    ELSE LET distance == Dist2(node.point, target)
             b0 == IF distance < st.best[3]
                   THEN <<node.point, node.data, distance>>
                   ELSE st.best
             s0 == [best |-> b0,
                    visits |-> Append(st.visits,
                                 [path |-> path, point |-> node.point,
                                  data |-> node.data, distance |-> distance,
                                  best |-> b0[3]])]
             axis == depth % 2
             gap == Abs(target[axis + 1] - node.point[axis + 1])
         IN IF target[axis + 1] < node.point[axis + 1]
            THEN LET s1 == IF gap * gap < s0.best[3]
                           THEN NearestNeighborTraceFarFirst(node.right, target, depth + 1,
                                                             s0, Append(path, "R"))
                           ELSE s0
                 IN NearestNeighborTraceFarFirst(node.left, target, depth + 1, s1,
                                                 Append(path, "L"))
            ELSE LET s1 == IF gap * gap < s0.best[3]
                           THEN NearestNeighborTraceFarFirst(node.left, target, depth + 1,
                                                             s0, Append(path, "L"))
                           ELSE s0
                 IN NearestNeighborTraceFarFirst(node.right, target, depth + 1, s1,
                                                 Append(path, "R"))

\* KDTree._nearest_neighbor_recursive with its visits recorded.  The state st
\* is [best, visits]: best is the list best of the code, visits has one entry
\* per call on a node that is not None, in call order, with the node's
\* position in the tree (path: "L"/"R" steps from the root), its point,
\* payload and squared distance, and the best squared distance once the node
\* has been compared (lines 252-255).
RECURSIVE NearestNeighborTrace(_, _, _, _, _)
NearestNeighborTrace(node, target, depth, st, path) ==
    IF node = None THEN st
    ELSE LET distance == Dist2(node.point, target)
             b0 == IF distance < st.best[3]
                   THEN <<node.point, node.data, distance>>
                   ELSE st.best
             s0 == [best |-> b0,
                    visits |-> Append(st.visits,
                                 [path |-> path, point |-> node.point,
                                  data |-> node.data, distance |-> distance,
                                  best |-> b0[3]])]
             axis == depth % 2
             gap == Abs(target[axis + 1] - node.point[axis + 1])
         IN IF target[axis + 1] < node.point[axis + 1]
            THEN LET s1 == NearestNeighborTrace(node.left, target, depth + 1, s0,
                                                Append(path, "L"))
                 IN IF gap * gap < s1.best[3]
                    THEN NearestNeighborTrace(node.right, target, depth + 1, s1,
                                              Append(path, "R"))
                    ELSE s1
            ELSE LET s1 == NearestNeighborTrace(node.right, target, depth + 1, s0,
                                                Append(path, "R"))
                 IN IF gap * gap < s1.best[3]
                    THEN NearestNeighborTrace(node.left, target, depth + 1, s1,
                                              Append(path, "L"))
                    ELSE s1

\* The visits of nearest_neighbor(target) on a tree that is not empty.
VisitsOf(tree, target) ==
    NearestNeighborTrace(tree, target, 0,
                         [best |-> <<None, None, Inf>>, visits |-> <<>>], <<>>).visits

\* _range_search_recursive written after the pattern of _insert_recursive and
\* _delete_recursive: each child link is assigned the value the recursive call
\* returns (node.left = self._range_search_recursive(node.left, ...)), and
\* that value is None, since the method returns nothing.
RangeSearchNodeAfterAssign(node, min_point, max_point, depth) ==
    IF node = None THEN None
    ELSE LET axis == depth % 2
         IN [point |-> node.point,
             data |-> node.data,
             left |-> IF min_point[axis + 1] <= node.point[axis + 1]
                      THEN None
                      ELSE node.left,
             right |-> IF node.point[axis + 1] <= max_point[axis + 1]
                       THEN None
                       ELSE node.right]

\* The node as _range_search_recursive leaves it.  Its fields after the call
\* are those the statements of lines 198-215 leave: the point and payload it
\* had, and as children the child nodes as the recursive calls of lines 212
\* and 215 leave them, or as they were where the call is not made.
RECURSIVE RangeSearchNodeAfter(_, _, _, _)
RangeSearchNodeAfter(node, min_point, max_point, depth) ==
    IF node = None THEN None
    ELSE LET axis == depth % 2
         IN [point |-> node.point,
             data |-> node.data,
             left |-> IF min_point[axis + 1] <= node.point[axis + 1]
                      THEN RangeSearchNodeAfter(node.left, min_point, max_point, depth + 1)
                      ELSE node.left,
             right |-> IF node.point[axis + 1] <= max_point[axis + 1]
                       THEN RangeSearchNodeAfter(node.right, min_point, max_point, depth + 1)
                       ELSE node.right]

\* The node as _nearest_neighbor_recursive leaves it, called with the list
\* best (lines 245-270): the point and payload it had, the near child as the
\* first recursive call leaves it, and the far child as the second call leaves
\* it, or as it was where that call is not made.
RECURSIVE NearestNeighborNodeAfter(_, _, _, _)
NearestNeighborNodeAfter(node, target, depth, best) ==
    IF node = None THEN None
    ELSE LET distance == Dist2(node.point, target)
             b0 == IF distance < best[3]
                   THEN <<node.point, node.data, distance>>
                   ELSE best
             axis == depth % 2
             gap == Abs(target[axis + 1] - node.point[axis + 1])
         IN IF target[axis + 1] < node.point[axis + 1]
            THEN LET b1 == NearestNeighborRecursive(node.left, target, depth + 1, b0)
                 IN [point |-> node.point,
                     data |-> node.data,
                     left |-> NearestNeighborNodeAfter(node.left, target, depth + 1, b0),
                     right |-> IF gap * gap < b1[3]
                               THEN NearestNeighborNodeAfter(node.right, target, depth + 1, b1)
                               ELSE node.right]
            ELSE LET b1 == NearestNeighborRecursive(node.right, target, depth + 1, b0)
                 IN [point |-> node.point,
                     data |-> node.data,
                     left |-> IF gap * gap < b1[3]
                              THEN NearestNeighborNodeAfter(node.left, target, depth + 1, b1)
                              ELSE node.left,
                     right |-> NearestNeighborNodeAfter(node.right, target, depth + 1, b0)]

\* The tree that range_search(min_point, max_point) leaves (lines 181-183).
TreeAfterRangeSearch(tree, min_point, max_point) ==
    RangeSearchNodeAfter(tree, min_point, max_point, 0)

\* The tree that nearest_neighbor(target) leaves (lines 227-232).
TreeAfterNearestNeighbor(tree, target) ==
    IF tree = None THEN tree
    ELSE NearestNeighborNodeAfter(tree, target, 0, <<None, None, Inf>>)

\* KDTree.range_search
RangeSearchOf(tree, min_point, max_point) ==
    RangeSearchRecursive(tree, min_point, max_point, 0, <<>>)

\* nearest_neighbor with the running best distance starting at 0 instead of
\* float('inf'): no node ever improves on it.
NearestNeighborOfZero(tree, target) ==
    IF tree = None THEN None
    ELSE LET best == NearestNeighborRecursive(tree, target, 0, <<None, None, 0>>)
         IN IF best[1] # None THEN best ELSE None

\* KDTree.nearest_neighbor
NearestNeighborOf(tree, target) ==
    IF tree = None THEN None
    ELSE LET best == NearestNeighborRecursive(tree, target, 0, <<None, None, Inf>>)
         IN IF best[1] # None THEN best ELSE None

\* Number of nodes of a tree.
RECURSIVE Size(_)
Size(node) == IF node = None THEN 0 ELSE 1 + Size(node.left) + Size(node.right)

(***************************************************************************)
(* Observations of a tree, used to state the properties below.             *)
(***************************************************************************)

\* The points stored in a subtree.
RECURSIVE PointSet(_)
PointSet(node) ==
    IF node = None THEN {}
    ELSE {node.point} \cup PointSet(node.left) \cup PointSet(node.right)

\* How many nodes of a subtree store the point p.
RECURSIVE CountPoint(_, _)
CountPoint(node, p) ==
    IF node = None THEN 0
    ELSE (IF node.point = p THEN 1 ELSE 0)
         + CountPoint(node.left, p) + CountPoint(node.right, p)

\* How many nodes of a subtree store the point p with the payload d.
RECURSIVE CountPair(_, _, _)
CountPair(node, p, d) ==
    IF node = None THEN 0
    ELSE (IF node.point = p /\ node.data = d THEN 1 ELSE 0)
         + CountPair(node.left, p, d) + CountPair(node.right, p, d)

\* The nodes of a subtree, each with its depth: <<node, depth>>.
RECURSIVE NodesAt(_, _)
NodesAt(node, depth) ==
    IF node = None THEN {}
    ELSE {<<node, depth>>} \cup NodesAt(node.left, depth + 1)
                           \cup NodesAt(node.right, depth + 1)

\* The axis-alternating partition invariant of the subtree rooted at depth.
PartitionOK(node, depth) ==
    \A nd \in NodesAt(node, depth) :
        LET n == nd[1]
            axis == nd[2] % 2
        IN /\ \A q \in PointSet(n.left) : q[axis + 1] < n.point[axis + 1]
           /\ \A q \in PointSet(n.right) : q[axis + 1] >= n.point[axis + 1]

\* The node at which the search of _delete_recursive finds the point (the
\* node whose point line 101 matches), or None.
RECURSIVE FoundNode(_, _, _)
FoundNode(node, point, depth) ==
    IF node = None THEN None
    ELSE LET axis == depth % 2 IN
         IF node.point = point THEN node
         ELSE IF point[axis + 1] < node.point[axis + 1]
              THEN FoundNode(node.left, point, depth + 1)
              ELSE FoundNode(node.right, point, depth + 1)

\* The closed rectangle [min_point, max_point].
InRect(p, min_point, max_point) ==
    /\ min_point[1] <= p[1] /\ p[1] <= max_point[1]
    /\ min_point[2] <= p[2] /\ p[2] <= max_point[2]

\* The result of a range_search over a rectangle covering all coordinates.
FullSearch(tree) ==
    LET lo == CHOOSE c \in Coords : \A e \in Coords : c <= e
        hi == CHOOSE c \in Coords : \A e \in Coords : c >= e
    IN RangeSearchOf(tree, <<lo, lo>>, <<hi, hi>>)


\* KDTree.__init__
Init ==
    /\ root = None
    /\ op = "init"
    /\ arg = None
    /\ ret = None

\* KDTree.insert
Insert(point, data) ==
    /\ Size(root) < MaxNodes
    /\ root' = InsertRecursive(root, point, data, 0)
    /\ op' = "insert"
    /\ arg' = <<point, data>>
    /\ ret' = None

\* KDTree.delete
Delete(point) ==
    /\ LET res == DeleteRecursive(root, point, 0)
       IN /\ root' = res[1]
          /\ ret' = res[2]
    /\ op' = "delete"
    /\ arg' = point

\* KDTree.range_search
RangeSearch(min_point, max_point) ==
    /\ ret' = RangeSearchOf(root, min_point, max_point)
    /\ op' = "range_search"
    /\ arg' = <<min_point, max_point>>
    /\ root' = TreeAfterRangeSearch(root, min_point, max_point)

\* KDTree.nearest_neighbor
NearestNeighbor(target) ==
    /\ ret' = NearestNeighborOf(root, target)
    /\ op' = "nearest_neighbor"
    /\ arg' = target
    /\ root' = TreeAfterNearestNeighbor(root, target)

\* Any call of the four public methods.
Next ==
    \/ \E point \in Points, data \in Payloads : Insert(point, data)
    \/ \E point \in Points : Delete(point)
    \/ \E min_point \in Points, max_point \in Points : RangeSearch(min_point, max_point)
    \/ \E target \in Points : NearestNeighbor(target)

Spec == Init /\ [][Next]_vars

\* Sequences of insert and delete calls.
NextMutate ==
    \/ \E point \in Points, data \in Payloads : Insert(point, data)
    \/ \E point \in Points : Delete(point)

SpecMutate == Init /\ [][NextMutate]_vars

\* Sequences of insert calls only.
NextInsert == \E point \in Points, data \in Payloads : Insert(point, data)

SpecInsert == Init /\ [][NextInsert]_vars

\* Sequences of insert and delete calls ended by one nearest_neighbor query.
\* Every tree that a run with interleaved queries reaches is reached here,
\* and is queried with every target.
NextNearest ==
    \/ \E point \in Points, data \in Payloads :
          op # "nearest_neighbor" /\ Insert(point, data)
    \/ \E point \in Points :
          op # "nearest_neighbor" /\ Delete(point)
    \/ \E target \in Points :
          op # "nearest_neighbor" /\ NearestNeighbor(target)

SpecNearest == Init /\ [][NextNearest]_vars

\* Sequences of insert and delete calls ended by one range_search.  The query
\* leaves root as it is, so the calls that could follow it are those that
\* could follow the state before it: every tree that a run with interleaved
\* queries reaches is reached here, and is queried with every rectangle.
NextRange ==
    \/ \E point \in Points, data \in Payloads :
          op # "range_search" /\ Insert(point, data)
    \/ \E point \in Points :
          op # "range_search" /\ Delete(point)
    \/ \E min_point \in Points, max_point \in Points :
          op # "range_search" /\ RangeSearch(min_point, max_point)

SpecRange == Init /\ [][NextRange]_vars

\* Sequences of insert calls over the wide grid, ended by one range_search
\* with corners on the wide grid.  Trees built by inserts alone are the trees
\* that satisfy the partition invariant: each such tree is what inserting its
\* nodes in pre-order builds.
NextValidRange ==
    \/ \E point \in WidePoints :
          op # "range_search" /\ Insert(point, "a")
    \/ \E min_point \in WidePoints, max_point \in WidePoints :
          op # "range_search" /\ RangeSearch(min_point, max_point)

SpecValidRange == Init /\ [][NextValidRange]_vars

\* The two query methods.
Queries == {"range_search", "nearest_neighbor"}

\* Sequences of insert and delete calls ended by one query of either kind.
\* Every tree shape that inserts and deletes reach, valid or not, is queried
\* with every argument.  The queries copy payloads and never test them, so
\* one payload is inserted here.
NextQuery ==
    \/ \E point \in Points :
          op \notin Queries /\ Insert(point, "a")
    \/ \E point \in Points :
          op \notin Queries /\ Delete(point)
    \/ \E min_point \in Points, max_point \in Points :
          op \notin Queries /\ RangeSearch(min_point, max_point)
    \/ \E target \in Points :
          op \notin Queries /\ NearestNeighbor(target)

SpecQuery == Init /\ [][NextQuery]_vars

(***************************************************************************)
(* Properties.                                                             *)
(***************************************************************************)

\* C1: after any sequence of insert and delete calls from the empty tree,
\* every node at depth d has, along axis d mod 2, only smaller points in its
\* left subtree and only greater-or-equal points in its right subtree.
C1_PartitionInvariant == PartitionOK(root, 0)

\* C2: in every reachable tree, delete(p) of a point p that some node stores
\* returns True and leaves one node less (as counted directly and by a
\* range_search over a rectangle covering all coordinates).
C2_DeleteStoredSucceeds ==
    [][(op' = "delete" /\ CountPoint(root, arg') >= 1)
        => /\ ret' = TRUE
           /\ Size(root') = Size(root) - 1
           /\ Len(FullSearch(root')) = Len(FullSearch(root)) - 1]_vars

\* C3: in every reachable tree, delete(p) of a point p that no node stores
\* returns False and leaves the tree as it was.
C3_DeleteAbsentUnchanged ==
    [][(op' = "delete" /\ CountPoint(root, arg') = 0)
        => /\ ret' = FALSE
           /\ root' = root]_vars

\* A delete of an absent point has acted on a non-empty tree.
C3_Witness ==
    /\ op = "delete"
    /\ ret = FALSE
    /\ Size(root) >= 2
    /\ CountPoint(root, arg) = 0

\* The points of a range_search result.
ResultPoints(result) == {result[i][1] : i \in 1..Len(result)}

\* C4: in every reachable tree and for every rectangle, a stored point is in
\* the result of range_search exactly when it lies in the closed rectangle,
\* and nothing else is returned.
C4_RangeSearchExact ==
    op = "range_search"
        => /\ \A p \in PointSet(root) :
                (p \in ResultPoints(ret)) <=> InRect(p, arg[1], arg[2])
           /\ ResultPoints(ret) \subseteq PointSet(root)

\* C5: in every reachable non-empty tree and for every target,
\* nearest_neighbor returns a stored point, its distance to the target, and
\* no stored point is closer (distances compared through their squares).
C5_NearestIsMinimal ==
    (op = "nearest_neighbor" /\ root # None)
        => /\ ret # None
           /\ ret[1] \in PointSet(root)
           /\ ret[3] = Dist2(ret[1], arg)
           /\ \A p \in PointSet(root) : ret[3] <= Dist2(p, arg)

\* C6: insert always adds exactly one node, also when the point is already
\* stored: the node count, the count of nodes holding the inserted pair and
\* the length of a range_search over a covering rectangle each grow by one,
\* and that search returns every node.
C6_InsertAddsOneNode ==
    [][op' = "insert"
        => /\ Size(root') = Size(root) + 1
           /\ CountPoint(root', arg'[1]) = CountPoint(root, arg'[1]) + 1
           /\ CountPair(root', arg'[1], arg'[2]) = CountPair(root, arg'[1], arg'[2]) + 1
           /\ Len(FullSearch(root')) = Len(FullSearch(root)) + 1
           /\ Len(FullSearch(root')) = Size(root')]_vars

\* An insert of a point that was already stored has acted.
C6_Witness ==
    /\ op = "insert"
    /\ CountPoint(root, arg[1]) >= 2
    /\ Size(root) = MaxNodes

\* C7: a delete(p) that returns True removes one stored (point, payload) pair
\* whose point is p and leaves the multiplicity of every other pair as it was.
C7_DeleteRemovesOnePair ==
    [][(op' = "delete" /\ ret' = TRUE)
        => \E d \in Payloads :
              /\ CountPair(root, arg', d) >= 1
              /\ \A q \in Points, e \in Payloads :
                    CountPair(root', q, e) =
                        CountPair(root, q, e) - (IF q = arg' /\ e = d THEN 1 ELSE 0)]_vars

\* The subtree _delete_recursive hands to _find_min at a node with a child.
MinSearchChild(node) == IF node.right # None THEN node.right ELSE node.left

\* C8: in a tree satisfying the partition invariant, for every node with a
\* child at depth d, _find_min of the child delete would search (right, else
\* left) along axis d mod 2 returns a node of that subtree with the smallest
\* coordinate of the subtree along that axis.
C8_FindMinIsMinimal ==
    PartitionOK(root, 0)
        => \A nd \in NodesAt(root, 0) :
              LET child == MinSearchChild(nd[1])
                  axis == nd[2] % 2
                  found == FindMin(child, axis)
              IN child # None
                    => /\ \E sub \in NodesAt(child, nd[2] + 1) : sub[1] = found
                       /\ \A q \in PointSet(child) : found.point[axis + 1] <= q[axis + 1]

\* C9: every tree built from the empty tree by insert calls only satisfies
\* the partition invariant; in particular a point equal to a node's point on
\* the split axis is never in that node's left subtree.
C9_InsertOnlyPartition == PartitionOK(root, 0)

\* Inserts have built a full tree in which a point equal to the root's on
\* axis 0 sits in the right subtree and the root also has a left subtree.
C9_Witness ==
    /\ op = "insert"
    /\ Size(root) = MaxNodes
    /\ root.left # None
    /\ \E q \in PointSet(root.right) : q[1] = root.point[1]

\* C10: nearest_neighbor returns None exactly when the tree is empty, and a
\* (point, payload, distance) triple otherwise.
C10_NearestNoneIffEmpty ==
    op = "nearest_neighbor"
        => /\ (ret = None) <=> (root = None)
           /\ root # None
                => /\ Len(ret) = 3
                   /\ ret[1] \in Points
                   /\ ret[2] \in Payloads
                   /\ ret[3] \in 0..(Inf - 1)

\* nearest_neighbor has answered on a tree of several nodes.
C10_Witness ==
    /\ op = "nearest_neighbor"
    /\ root # None
    /\ ret # None
    /\ Size(root) >= 2

\* A rectangle with min_point above max_point on at least one axis.
Inverted(min_point, max_point) ==
    min_point[1] > max_point[1] \/ min_point[2] > max_point[2]

\* C11: in every reachable tree, range_search returns the empty list (and not
\* an error) when the tree is empty and when the rectangle is inverted on at
\* least one axis.
C11_EmptyOrInvertedIsEmpty ==
    (op = "range_search" /\ (root = None \/ Inverted(arg[1], arg[2])))
        => ret = <<>>

\* range_search has answered an inverted rectangle on a tree of several
\* nodes, one of which lies between the bounds on the axis that is not
\* inverted.
C11_Witness ==
    /\ op = "range_search"
    /\ Size(root) >= 2
    /\ Inverted(arg[1], arg[2])
    /\ \E p \in PointSet(root) :
          \/ arg[1][1] <= p[1] /\ p[1] <= arg[2][1]
          \/ arg[1][2] <= p[2] /\ p[2] <= arg[2][2]
    /\ ret = <<>>

\* C12: when exactly one node stores p and delete(p) returns True, no node
\* stores p afterwards: nearest_neighbor(p) gives no result or another point,
\* and no range_search result contains p.
C12_DeletedPointIsGone ==
    [][(op' = "delete" /\ ret' = TRUE /\ CountPoint(root, arg') = 1)
        => /\ CountPoint(root', arg') = 0
           /\ LET nearest == NearestNeighborOf(root', arg')
              IN nearest = None \/ nearest[1] # arg'
           /\ \A min_point \in Points, max_point \in Points :
                 arg' \notin ResultPoints(RangeSearchOf(root', min_point, max_point))]_vars

\* A delete has returned True and left a tree of several nodes, none of which
\* stores the deleted point.
C12_Witness ==
    /\ op = "delete"
    /\ ret = TRUE
    /\ Size(root) >= 2
    /\ CountPoint(root, arg) = 0

\* C13: in a tree satisfying the partition invariant, a delete that removes a
\* node with a left child and no right child (the node takes the minimum of
\* its left subtree, which stays attached on the left) leaves a tree that
\* satisfies the partition invariant.
C13_LeftOnlyDeleteKeepsPartition ==
    [][(/\ op' = "delete"
        /\ PartitionOK(root, 0)
        /\ LET found == FoundNode(root, arg', 0)
           IN found # None /\ found.left # None /\ found.right = None)
        => PartitionOK(root', 0)]_vars

\* The smallest squared distance from the target to a stored point.
MinDist2(tree, target) ==
    CHOOSE d \in {Dist2(p, target) : p \in PointSet(tree)} :
        \A p \in PointSet(tree) : d <= Dist2(p, target)

\* C14: on every tree that satisfies the partition invariant and for every
\* target, the pruned nearest_neighbor returns the distance an exhaustive scan
\* of the stored points finds.
C14_PrunedEqualsExhaustive ==
    (op = "nearest_neighbor" /\ root # None /\ PartitionOK(root, 0))
        => /\ ret # None
           /\ ret[3] = MinDist2(root, arg)

\* nearest_neighbor has answered on a tree satisfying the partition invariant
\* without visiting every node: a far child was skipped.
C14_Witness ==
    /\ op = "nearest_neighbor"
    /\ root # None
    /\ PartitionOK(root, 0)
    /\ Len(VisitsOf(root, arg)) < Size(root)
    /\ ret[3] = MinDist2(root, arg)

\* The traversal of _range_search_recursive without its two descent tests:
\* every node is visited, node first, then left subtree, then right subtree.
RECURSIVE UnprunedSearch(_, _, _, _)
UnprunedSearch(node, min_point, max_point, result) ==
    IF node = None THEN result
    ELSE LET r0 == IF InRect(node.point, min_point, max_point)
                   THEN Append(result, <<node.point, node.data>>)
                   ELSE result
             r1 == UnprunedSearch(node.left, min_point, max_point, r0)
         IN UnprunedSearch(node.right, min_point, max_point, r1)

\* Every subtree that the descent tests of range_search skip, at a node the
\* search visits, holds no point of the rectangle.
RECURSIVE SkippedAreOutside(_, _, _, _)
SkippedAreOutside(node, min_point, max_point, depth) ==
    \/ node = None
    \/ LET axis == depth % 2
       IN /\ IF min_point[axis + 1] <= node.point[axis + 1]
             THEN SkippedAreOutside(node.left, min_point, max_point, depth + 1)
             ELSE \A p \in PointSet(node.left) : ~InRect(p, min_point, max_point)
          /\ IF node.point[axis + 1] <= max_point[axis + 1]
             THEN SkippedAreOutside(node.right, min_point, max_point, depth + 1)
             ELSE \A p \in PointSet(node.right) : ~InRect(p, min_point, max_point)

\* Some node that range_search visits has a left child that is present and
\* skipped by the test of line 211 (min_point[axis] > node.point[axis]).
RECURSIVE SkipsLeftSubtree(_, _, _, _)
SkipsLeftSubtree(node, min_point, max_point, depth) ==
    /\ node # None
    /\ LET axis == depth % 2
       IN \/ IF min_point[axis + 1] <= node.point[axis + 1]
             THEN SkipsLeftSubtree(node.left, min_point, max_point, depth + 1)
             ELSE node.left # None
          \/ /\ node.point[axis + 1] <= max_point[axis + 1]
             /\ SkipsLeftSubtree(node.right, min_point, max_point, depth + 1)

\* Some node that range_search visits has a right child that is present and
\* skipped by the test of line 214 (node.point[axis] > max_point[axis]).
RECURSIVE SkipsRightSubtree(_, _, _, _)
SkipsRightSubtree(node, min_point, max_point, depth) ==
    /\ node # None
    /\ LET axis == depth % 2
       IN \/ /\ min_point[axis + 1] <= node.point[axis + 1]
             /\ SkipsRightSubtree(node.left, min_point, max_point, depth + 1)
          \/ IF node.point[axis + 1] <= max_point[axis + 1]
             THEN SkipsRightSubtree(node.right, min_point, max_point, depth + 1)
             ELSE node.right # None

\* C15: on every tree that satisfies the partition invariant, a subtree that
\* range_search skips holds no point of the query rectangle, and the result is
\* the result of the unpruned full traversal.
C15_RangePruningSound ==
    (op = "range_search" /\ PartitionOK(root, 0))
        => /\ SkippedAreOutside(root, arg[1], arg[2], 0)
           /\ ret = UnprunedSearch(root, arg[1], arg[2], <<>>)

\* range_search on a tree satisfying the partition invariant has skipped a
\* present left subtree, whose points lie below the rectangle, has found a
\* point elsewhere, and returns what the unpruned traversal returns.
C15_Witness ==
    /\ op = "range_search"
    /\ PartitionOK(root, 0)
    /\ SkipsLeftSubtree(root, arg[1], arg[2], 0)
    /\ ret # <<>>
    /\ ret = UnprunedSearch(root, arg[1], arg[2], <<>>)

\* The node reached from node by the steps of path ("L": left, "R": right).
RECURSIVE NodeAt(_, _)
NodeAt(node, path) ==
    IF path = <<>> \/ node = None THEN node
    ELSE NodeAt(IF Head(path) = "L" THEN node.left ELSE node.right, Tail(path))

\* path p is a prefix of path q: q lies in the subtree rooted at p.
IsPrefix(p, q) == Len(p) <= Len(q) /\ SubSeq(q, 1, Len(p)) = p

\* The greatest element of a non-empty set of integers.
MaxOf(S) == CHOOSE x \in S : \A y \in S : y <= x

\* The order of the visits vs of one nearest_neighbor(target) call on tree:
\* at the i-th visit, the visits in the near subtree all come before those in
\* the far subtree, a present near child is visited, and the far child is
\* visited exactly when it is present and the squared distance to the
\* splitting line is below the best squared distance at the return of the
\* near search; if it is not below, the far subtree has no visit at all.
NearBeforeFarAt(tree, target, vs, i) ==
    LET e == vs[i]
        node == NodeAt(tree, e.path)
        axis == Len(e.path) % 2
        goesLeft == target[axis + 1] < node.point[axis + 1]
        nearPath == Append(e.path, IF goesLeft THEN "L" ELSE "R")
        farPath == Append(e.path, IF goesLeft THEN "R" ELSE "L")
        nearChild == IF goesLeft THEN node.left ELSE node.right
        farChild == IF goesLeft THEN node.right ELSE node.left
        nearIdx == {j \in 1..Len(vs) : IsPrefix(nearPath, vs[j].path)}
        farIdx == {j \in 1..Len(vs) : IsPrefix(farPath, vs[j].path)}
        gap == Abs(target[axis + 1] - node.point[axis + 1])
        bestAfterNear == IF nearIdx = {} THEN e.best ELSE vs[MaxOf(nearIdx)].best
    IN /\ node # None /\ node.point = e.point /\ node.data = e.data
       /\ \A j \in nearIdx : i < j
       /\ \A j \in nearIdx, k \in farIdx : j < k
       /\ nearChild # None => \E j \in nearIdx : vs[j].path = nearPath
       /\ (\E k \in farIdx : vs[k].path = farPath)
             <=> (farChild # None /\ gap * gap < bestAfterNear)
       /\ ~(gap * gap < bestAfterNear) => farIdx = {}

\* C16: during nearest_neighbor, at every visited node the near child is
\* visited before the far child, and the far child is visited only if, once
\* the near search has returned, the distance to the splitting line is
\* strictly less than the running best distance; otherwise no node of the far
\* subtree is visited.  The visits are those of the call that produced ret.
C16_NearBeforeFar ==
    (op = "nearest_neighbor" /\ root # None)
        => LET vs == VisitsOf(root, arg)
           IN /\ vs # <<>> /\ vs[1].path = <<>>
              /\ vs[Len(vs)].best = ret[3]
              /\ \A i \in 1..Len(vs) : NearBeforeFarAt(root, arg, vs, i)

\* One nearest_neighbor call has visited a near child and then the far child
\* of one node, and has skipped the present far child of another.
C16_Witness ==
    /\ op = "nearest_neighbor"
    /\ root # None
    /\ LET vs == VisitsOf(root, arg)
       IN /\ \A i \in 1..Len(vs) : NearBeforeFarAt(root, arg, vs, i)
          /\ \E i \in 1..Len(vs) :
                /\ \E j \in 1..Len(vs) : vs[j].path = Append(vs[i].path, "L")
                /\ \E j \in 1..Len(vs) : vs[j].path = Append(vs[i].path, "R")
          /\ \E i \in 1..Len(vs) :
                LET node == NodeAt(root, vs[i].path)
                IN \/ /\ node.left # None
                      /\ \A j \in 1..Len(vs) : vs[j].path # Append(vs[i].path, "L")
                   \/ /\ node.right # None
                      /\ \A j \in 1..Len(vs) : vs[j].path # Append(vs[i].path, "R")

\* The index of the first visit, in search order, at the smallest squared
\* distance among the visits vs.
FirstMinimal(vs) ==
    CHOOSE i \in 1..Len(vs) :
        /\ \A j \in 1..Len(vs) : vs[i].distance <= vs[j].distance
        /\ \A j \in 1..(i - 1) : vs[j].distance > vs[i].distance

\* C17: when several visited nodes are at the same minimal distance from the
\* target, nearest_neighbor returns the one visited first in its search
\* order: a later node at equal distance never displaces an earlier one.
C17_TieGoesToFirstVisited ==
    (op = "nearest_neighbor" /\ root # None)
        => LET vs == VisitsOf(root, arg)
               first == FirstMinimal(vs)
           IN ret = <<vs[first].point, vs[first].data, vs[first].distance>>

\* nearest_neighbor has visited two nodes at the same minimal distance that
\* differ in point or payload, and has returned the one visited first.
C17_Witness ==
    /\ op = "nearest_neighbor"
    /\ root # None
    /\ LET vs == VisitsOf(root, arg)
           first == FirstMinimal(vs)
       IN /\ \E j \in (first + 1)..Len(vs) :
                /\ vs[j].distance = vs[first].distance
                /\ <<vs[j].point, vs[j].data>> # <<vs[first].point, vs[first].data>>
          /\ ret = <<vs[first].point, vs[first].data, vs[first].distance>>

\* C18: in every reachable tree and for every delete call, _find_min is
\* invoked only on a present subtree, at the call from deletion and at every
\* recursive step, so ValueError("Node cannot be None") is never raised.
C18_FindMinNeverOnNone ==
    \A point \in Points :
        \A call \in DeleteFindMinCalls(root, point, 0) :
            /\ call.node # None
            /\ FindMin(call.node, call.axis) # ValueError

\* A delete has returned True and left a tree on which a further delete calls
\* _find_min from deletion, recursively, and again in the inner delete.
C18_Witness ==
    /\ op = "delete"
    /\ ret = TRUE
    /\ \E point \in Points :
          LET calls == DeleteFindMinCalls(root, point, 0)
          IN /\ Cardinality(calls) >= 3
             /\ \E c1 \in calls, c2 \in calls : c1.axis # c2.axis
             /\ \A call \in calls : call.node # None

\* The trees that n insert calls build from the empty tree.
RECURSIVE InsertBuilt(_)
InsertBuilt(n) ==
    IF n = 0 THEN {None}
    ELSE {InsertRecursive(tree, point, data, 0) :
              tree \in InsertBuilt(n - 1), point \in Points, data \in Payloads}

\* C19: on any tree that satisfies the partition invariant, delete(p) returns
\* True exactly when p is stored, and when it returns True the multiset of
\* stored points afterwards is the previous multiset minus one occurrence of
\* p, whether or not the resulting tree still satisfies the invariant.
C19_DeleteOnValidTree ==
    [][(op' = "delete" /\ PartitionOK(root, 0))
        => /\ ret' = (CountPoint(root, arg') >= 1)
           /\ ret' = TRUE =>
                 \A q \in Points :
                     CountPoint(root', q) =
                         CountPoint(root, q) - (IF q = arg' THEN 1 ELSE 0)]_vars

\* A delete has returned True on a tree built by three inserts, which
\* satisfies the partition invariant, and has left two nodes that do not.
C19_Witness ==
    /\ op = "delete"
    /\ ret = TRUE
    /\ Size(root) = 2
    /\ ~PartitionOK(root, 0)
    /\ \E tree \in InsertBuilt(3) :
          /\ PartitionOK(tree, 0)
          /\ DeleteRecursive(tree, arg, 0) = <<root, TRUE>>
          /\ \A q \in Points :
                CountPoint(root, q) = CountPoint(tree, q) - (IF q = arg THEN 1 ELSE 0)

\* C20: in every reachable tree where no node stores p, insert(p, payload)
\* followed by delete(p) returns True and restores exactly the tree that
\* existed before the insert: same nodes, points, payloads and links.
C20_InsertDeleteRoundTrip ==
    \A point \in Points, data \in Payloads :
        CountPoint(root, point) = 0
            => DeleteRecursive(InsertRecursive(root, point, data, 0), point, 0)
                   = <<root, TRUE>>

\* insert(p, payload) has just added p to a tree of at least two nodes that
\* did not store it and that deletes had left without the partition
\* invariant; delete(p) on it returns True and gives a tree without p from
\* which the same insert builds the present tree again.
C20_Witness ==
    /\ op = "insert"
    /\ CountPoint(root, arg[1]) = 1
    /\ Size(root) >= 3
    /\ LET sub == DeleteRecursive(root, arg[1], 0)
       IN /\ sub[2] = TRUE
          /\ CountPoint(sub[1], arg[1]) = 0
          /\ ~PartitionOK(sub[1], 0)
          /\ InsertRecursive(sub[1], arg[1], arg[2], 0) = root

\* The positions of a tree of at most MaxNodes nodes and of its absent links:
\* the sequences of "L"/"R" steps from the root.
Paths == UNION {[1..n -> {"L", "R"}] : n \in 0..MaxNodes}

\* path leads to an absent link of tree: the root of the empty tree, or a
\* child link None of a node that is present.
AbsentLink(tree, path) ==
    /\ NodeAt(tree, path) = None
    /\ path = <<>> \/ NodeAt(tree, SubSeq(path, 1, Len(path) - 1)) # None

\* The tree node with what lies at path replaced by new; every node off the
\* path, and the point and payload of every node on it, stay as they are.
RECURSIVE ReplaceAt(_, _, _)
ReplaceAt(node, path, new) ==
    IF path = <<>> THEN new
    ELSE IF Head(path) = "L"
         THEN [node EXCEPT !.left = ReplaceAt(node.left, Tail(path), new)]
         ELSE [node EXCEPT !.right = ReplaceAt(node.right, Tail(path), new)]

\* C21: insert never rearranges the tree: every node present before
\* insert(point, payload) keeps its point, payload, depth and position, the
\* only change is that one absent child link (or the absent root) is replaced
\* by a new leaf holding (point, payload), and that leaf has no children.
C21_InsertOnlyAddsLeaf ==
    [][op' = "insert"
        => /\ \E path \in Paths :
                 /\ AbsentLink(root, path)
                 /\ root' = ReplaceAt(root, path, KDNode(arg'[1], arg'[2]))
                 /\ LET leaf == NodeAt(root', path)
                    IN /\ leaf.point = arg'[1] /\ leaf.data = arg'[2]
                       /\ leaf.left = None /\ leaf.right = None
           /\ \A path \in Paths :
                 LET old == NodeAt(root, path)
                     new == NodeAt(root', path)
                 IN old # None
                       => /\ new # None
                          /\ new.point = old.point /\ new.data = old.data
                          /\ (old.left # None => new.left # None)
                          /\ (old.right # None => new.right # None)
           /\ Size(root') = Size(root) + 1]_vars

\* insert has just hung its leaf two links or more below the root of a full
\* tree that deletes had left without the partition invariant: without the
\* leaf the tree is the one the insert started from.
C21_Witness ==
    /\ op = "insert"
    /\ Size(root) = MaxNodes
    /\ \E path \in Paths :
          /\ Len(path) >= 2
          /\ NodeAt(root, path) = KDNode(arg[1], arg[2])
          /\ LET before == ReplaceAt(root, path, None)
             IN /\ ~PartitionOK(before, 0)
                /\ InsertRecursive(before, arg[1], arg[2], 0) = root

====
